---- MODULE Spec2Model ----
(***************************************************************************)
(* Business logic of the GetOutline CLI: logic::documents::list and        *)
(* logic::documents::retrieve, run against arbitrary implementations of    *)
(* the AuthReader, DocumentReader and DocumentSaver ports.                 *)
(*                                                                         *)
(* One invocation at a time runs from "idle" to "done"; the port calls it  *)
(* makes are recorded in `calls`, and every answer a port may give is an   *)
(* input chosen by the environment.                                        *)
(*                                                                         *)
(* A u32 is a record [hi, lo] of two 16-bit halves (value hi * 2^16 + lo), *)
(* so that the whole unsigned 32-bit range and its 64-bit products are     *)
(* representable.  A String is a sequence of one-character strings.  An    *)
(* Option is a sequence of length at most one.  An anyhow::Error is the    *)
(* sequence of its messages, outermost context first.                      *)
(***************************************************************************)
EXTENDS Integers, Sequences, FiniteSets, TLC

\* ------------------------------------------------------------------ bounds
\* Each 16-bit half of an input u32 is drawn from 0..MaxSample, 15 or 65535.
MaxSample == 1
\* Longest caller-suggested file name that is enumerated.
MaxNameLen == 3

\* --------------------------------------------------------------- constants
Byte == 256
Half == 65536
HalfMax == 65535
DefaultResultsPerPage == 15

\* ------------------------------------------------------------------ Option
None == <<>>
Some(v) == <<v>>
IsSome(o) == Len(o) = 1

\* --------------------------------------------------------------------- u32
U32(h, l) == [hi |-> h, lo |-> l]

\* Product of two 16-bit halves as a pair of 16-bit halves.
Mul16(a, b) ==
    LET a1 == a \div Byte
        a0 == a % Byte
        b1 == b \div Byte
        b0 == b % Byte
        mid == a1 * b0 + a0 * b1
        low == a0 * b0 + (mid % Byte) * Byte
    IN  [hi |-> a1 * b1 + (mid \div Byte) + (low \div Half), lo |-> low % Half]

\* The mathematical product of two u32 values, as four 16-bit limbs
\* (value w3 * 2^48 + w2 * 2^32 + w1 * 2^16 + w0).
MulWide(a, b) ==
    LET t0 == Mul16(a.lo, b.lo)
        t1 == Mul16(a.hi, b.lo)
        t2 == Mul16(a.lo, b.hi)
        t3 == Mul16(a.hi, b.hi)
        s1 == t0.hi + t1.lo + t2.lo
        s2 == t1.hi + t2.hi + t3.lo + (s1 \div Half)
    IN  [w3 |-> t3.hi + (s2 \div Half), w2 |-> s2 % Half,
         w1 |-> s1 % Half, w0 |-> t0.lo]

\* A u32 widened to the four-limb form.
Widen(a) == [w3 |-> 0, w2 |-> 0, w1 |-> a.hi, w0 |-> a.lo]

MulOverflows(a, b) == MulWide(a, b).w3 # 0 \/ MulWide(a, b).w2 # 0

WrappingMul(a, b) == U32(MulWide(a, b).w1, MulWide(a, b).w0)

\* `a * b` on u32.  When the product does not fit, a build with overflow
\* checks panics and a build without them wraps; both are possible builds.
U32Mul(a, b) ==
    IF MulOverflows(a, b)
    THEN {[panic |-> TRUE, val |-> U32(0, 0)],
          [panic |-> FALSE, val |-> WrappingMul(a, b)]}
    ELSE {[panic |-> FALSE, val |-> WrappingMul(a, b)]}

HalfSamples == (0..MaxSample) \cup {DefaultResultsPerPage, HalfMax}
U32Inputs == {U32(h, l) : h \in HalfSamples, l \in HalfSamples}

\* ----------------------------------------------------------------- strings
Chars == {"a", ".", "m", "M", "d", "D"}
\* Every string over Chars up to MaxNameLen, and the suggested names of the
\* tests of retrieve (without the blank).
Names == UNION {[1..n -> Chars] : n \in 0..MaxNameLen}
         \cup {<<"N", "e", "w">>, <<"N", "e", "w", ".", "M", "d">>}

UpperCase == <<"A", "B", "C", "D", "E", "F", "G", "H", "I", "J", "K", "L", "M",
               "N", "O", "P", "Q", "R", "S", "T", "U", "V", "W", "X", "Y", "Z">>
LowerCase == <<"a", "b", "c", "d", "e", "f", "g", "h", "i", "j", "k", "l", "m",
               "n", "o", "p", "q", "r", "s", "t", "u", "v", "w", "x", "y", "z">>

\* char::to_lowercase on the characters used here (ASCII).
LowerChar(c) ==
    IF \E i \in 1..Len(UpperCase) : UpperCase[i] = c
    THEN LowerCase[CHOOSE i \in 1..Len(UpperCase) : UpperCase[i] = c]
    ELSE c

\* str::to_lowercase
ToLowercase(s) == [i \in 1..Len(s) |-> LowerChar(s[i])]

\* str::ends_with
EndsWith(s, suffix) ==
    /\ Len(s) >= Len(suffix)
    /\ SubSeq(s, Len(s) - Len(suffix) + 1, Len(s)) = suffix

DotMd == <<".", "m", "d">>


\* ------------------------------------------------------------ anyhow::Error
\* anyhow::Error::context: wraps the error in a new outermost message.
Context(cause, message) == <<message>> \o cause

AdapterCauses == {<<"Something blew up!">>}

\* --------------------------------------------------------- logic::auth types
UserInfos == {[id |-> "abc-def-ghi", name |-> "John Doe"],
              [id |-> "ghi-jkl-mno", name |-> "Jane Roe"]}
AuthInfos == {[user |-> u] : u \in UserInfos}

AuthRetrieveErrors == {[variant |-> "AdapterError", cause |-> c] : c \in AdapterCauses}

\* ---------------------------------------------------- logic::documents types
ListOptionsInputs ==
    {[page |-> p, results_per_page |-> r, own_documents_only |-> o] :
        p \in U32Inputs, r \in U32Inputs, o \in BOOLEAN}

SampleDocuments == <<[id |-> "abc-def-ghi", title |-> "Shopping list"],
                     [id |-> "ghi-jkl-mno", title |-> "Wish list"]>>
DocumentLists == {<<>>, SampleDocuments, <<SampleDocuments[2], SampleDocuments[1]>>}

ReaderListErrors ==
    {[variant |-> "BadCredentials", cause |-> <<>>]}
    \cup {[variant |-> "AdapterError", cause |-> c] : c \in AdapterCauses}

DocRetrieveErrors ==
    {[variant |-> "BadCredentials", cause |-> <<>>],
     [variant |-> "DocumentNotFound", cause |-> <<>>]}
    \cup {[variant |-> "AdapterError", cause |-> c] : c \in AdapterCauses}

DocumentIds == {"abc123", "12345"}
Titles == {<<>>, <<"a">>, <<"a", ".", "M", "D">>}
Texts == {"Hello world!", ""}
DocContents == {[id |-> "12345", title |-> t, text |-> x] : t \in Titles, x \in Texts}

RetrieveOptionsInputs == {[suggested_name |-> n] : n \in {None} \cup {Some(b) : b \in Names}}

\* A name no derived name can be equal to, for a saver that reports a
\* collision under another name than the one it was given.
OtherName == <<"u", ".", "m", "d">>
SaveErrors(name) ==
    {[variant |-> "TargetWithSameNameExists", name |-> n, cause |-> <<>>] : n \in {name, OtherName}}
    \cup {[variant |-> "AdapterError", name |-> <<>>, cause |-> c] : c \in AdapterCauses}

\* Result<(), ListError> and Result<(), RetrieveError>; "None" while the
\* invocation has not returned, "Panic" when it unwound instead of returning.
NoResult == [tag |-> "None", variant |-> "", requested_id |-> "", name |-> <<>>, cause |-> <<>>]
Panicked == [tag |-> "Panic", variant |-> "", requested_id |-> "", name |-> <<>>, cause |-> <<>>]
\* The value inside Ok: both functions return Result<(), _>.
Unit == [type |-> "()", items |-> <<>>]
Ok == [tag |-> "Ok", variant |-> "", requested_id |-> "", name |-> <<>>, cause |-> <<>>,
       val |-> Unit]
Err(v, id, n, c) == [tag |-> "Err", variant |-> v, requested_id |-> id, name |-> n, cause |-> c]

\* ------------------------------------------------------------------- state
VARIABLES
    pc,               \* position of the running invocation
    args,             \* the function invoked and its arguments
    user,             \* list: Option<UserInfo>
    reader_list_opts, \* list: Option<ReaderListOptions>
    getout_document,  \* retrieve: Option<DocContent>
    doc_name,         \* retrieve: Option<String>
    calls,            \* port calls made by the invocation, in order
    result,           \* value returned by the invocation
    stdout,           \* lines printed by the invocation
    files,            \* the working directory: file name -> bytes of the file
    save,             \* position of FileDocumentSaver::save_document and its return value
    saves,            \* the save_document calls FileDocumentSaver has completed, over all runs
    runs,             \* number of commands run so far
    requests          \* HTTP requests sent by the invocation, with their outcomes

vars == <<pc, args, user, reader_list_opts, getout_document, doc_name, calls, result, stdout,
          files, save, saves, runs, requests>>

\* State of the adapters: the file system, the file saver and the HTTP client.
adapterVars == <<files, save, saves, runs, requests>>

NoRet == [tag |-> "None"]
SaveIdle == [pc |-> "idle", created |-> FALSE, ret |-> NoRet]

NoArgs == [fn |-> "none"]

\* A port call: the method, its arguments and what it returned.
OkRet(v) == [tag |-> "Ok", val |-> v]
ErrRet(e) == [tag |-> "Err", err |-> e]
Call(m, a, r) == [method |-> m, args |-> a, ret |-> r]
CallsOf(m) == SelectSeq(calls, LAMBDA c : c.method = m)

Init ==
    /\ pc = "idle"
    /\ args = NoArgs
    /\ user = None
    /\ reader_list_opts = None
    /\ getout_document = None
    /\ doc_name = None
    /\ calls = <<>>
    /\ result = NoResult
    /\ stdout = <<>>
    /\ files = <<>>
    /\ save = SaveIdle
    /\ saves = <<>>
    /\ runs = 1
    /\ requests = <<>>

\* -------------------------------------------------- logic::documents::list
\* Mutation of ShouldReadAuth: the identity is looked up for every listing.
ShouldReadAuthAlways(list_opts) == TRUE

\* `if list_opts.own_documents_only`
ShouldReadAuth(list_opts) == list_opts.own_documents_only

\* Mutation of MapAuthError: the failure is reported as a listing failure.
MapAuthErrorAsListing(err) ==
    Err("CouldNotListDocuments", "", <<>>,
        Context(err.cause, "Tried to read authentication information while fetching document list"))

\* the map_err closure on auth_reader.current()
MapAuthError(err) ==
    CASE err.variant = "AdapterError" ->
        Err("CouldNotGetAuth", "", <<>>,
            Context(err.cause, "Tried to read authentication information while fetching document list"))

\* Mutation of UserFilter: filters by the user's name instead of the id.
UserFilterByName(u) == IF IsSome(u) THEN Some(u[1].name) ELSE None

\* `user.map(|it| it.id)`
UserFilter(u) == IF IsSome(u) THEN Some(u[1].id) ELSE None

\* Mutation of MapReaderListError: the two arms are exchanged.
MapReaderListErrorSwapped(err) ==
    CASE err.variant = "AdapterError" -> Err("BadCredentials", "", <<>>, <<>>)
      [] err.variant = "BadCredentials" ->
        Err("CouldNotListDocuments", "", <<>>,
            Context(err.cause, "Fetching the list of documents failed"))

\* the map_err closure on doc_reader.list()
MapReaderListError(err) ==
    CASE err.variant = "BadCredentials" -> Err("BadCredentials", "", <<>>, <<>>)
      [] err.variant = "AdapterError" ->
        Err("CouldNotListDocuments", "", <<>>,
            Context(err.cause, "Fetching the list of documents failed"))

\* Mutation of PrintListing: the entries are printed last to first.
PrintListingReversed(documents, page) ==
    IF documents = <<>>
    THEN <<[text |-> "No documents found!", args |-> <<>>]>>
    ELSE <<[text |-> "Retrieved documents (page {}):", args |-> <<page>>]>>
         \o [i \in 1..Len(documents) |->
                [text |-> "\t- \"{}\"\t (ID {})",
                 args |-> <<documents[Len(documents) + 1 - i].title,
                            documents[Len(documents) + 1 - i].id>>]]

\* the println! calls after a successful listing
PrintListing(documents, page) ==
    IF documents = <<>>
    THEN <<[text |-> "No documents found!", args |-> <<>>]>>
    ELSE <<[text |-> "Retrieved documents (page {}):", args |-> <<page>>]>>
         \o [i \in 1..Len(documents) |->
                [text |-> "\t- \"{}\"\t (ID {})",
                 args |-> <<documents[i].title, documents[i].id>>]]

ListInvoke(list_opts) ==
    /\ pc = "idle"
    /\ pc' = "list_auth"
    /\ args' = [fn |-> "list", list_opts |-> list_opts]
    /\ UNCHANGED <<user, reader_list_opts, getout_document, doc_name, calls, result, stdout>>
    /\ UNCHANGED adapterVars

ListSkipAuth ==
    /\ pc = "list_auth"
    /\ ~ShouldReadAuth(args.list_opts)
    /\ user' = None
    /\ pc' = "list_opts"
    /\ UNCHANGED <<args, reader_list_opts, getout_document, doc_name, calls, result, stdout>>
    /\ UNCHANGED adapterVars

ListAuthOk(auth_info) ==
    /\ pc = "list_auth"
    /\ ShouldReadAuth(args.list_opts)
    /\ calls' = Append(calls, Call("current", <<>>, OkRet(auth_info)))
    /\ user' = Some(auth_info.user)
    /\ pc' = "list_opts"
    /\ UNCHANGED <<args, reader_list_opts, getout_document, doc_name, result, stdout>>
    /\ UNCHANGED adapterVars

ListAuthErr(err) ==
    /\ pc = "list_auth"
    /\ ShouldReadAuth(args.list_opts)
    /\ calls' = Append(calls, Call("current", <<>>, ErrRet(err)))
    /\ result' = MapAuthError(err)
    /\ pc' = "done"
    /\ UNCHANGED <<args, user, reader_list_opts, getout_document, doc_name, stdout>>
    /\ UNCHANGED adapterVars

ListBuildOptions ==
    /\ pc = "list_opts"
    /\ \E product \in U32Mul(args.list_opts.page, args.list_opts.results_per_page) :
          IF product.panic
          THEN /\ result' = Panicked
               /\ pc' = "done"
               /\ UNCHANGED reader_list_opts
          ELSE /\ reader_list_opts' = Some([offset |-> product.val,
                                            limit |-> args.list_opts.results_per_page,
                                            user |-> UserFilter(user)])
               /\ pc' = "list_call"
               /\ UNCHANGED result
    /\ UNCHANGED <<args, user, getout_document, doc_name, calls, stdout>>
    /\ UNCHANGED adapterVars

ListReaderOk(documents) ==
    /\ pc = "list_call"
    /\ calls' = Append(calls, Call("list", reader_list_opts[1], OkRet(documents)))
    /\ stdout' = stdout \o PrintListing(documents, args.list_opts.page)
    /\ result' = Ok
    /\ pc' = "done"
    /\ UNCHANGED <<args, user, reader_list_opts, getout_document, doc_name>>
    /\ UNCHANGED adapterVars

\* Mutation of ListReaderErr: the failure is also printed.
ListReaderErrPrinting(err) ==
    /\ pc = "list_call"
    /\ calls' = Append(calls, Call("list", reader_list_opts[1], ErrRet(err)))
    /\ result' = MapReaderListError(err)
    /\ stdout' = Append(stdout, [text |-> "Could not list documents: {}", args |-> <<err.variant>>])
    /\ pc' = "done"
    /\ UNCHANGED <<args, user, reader_list_opts, getout_document, doc_name>>
    /\ UNCHANGED adapterVars

ListReaderErr(err) ==
    /\ pc = "list_call"
    /\ calls' = Append(calls, Call("list", reader_list_opts[1], ErrRet(err)))
    /\ result' = MapReaderListError(err)
    /\ pc' = "done"
    /\ UNCHANGED <<args, user, reader_list_opts, getout_document, doc_name, stdout>>
    /\ UNCHANGED adapterVars

\* ---------------------------------------------- logic::documents::retrieve
\* Mutation of MapDocRetrieveError: the id of the error is left empty.
MapDocRetrieveErrorNoId(err, document_id) ==
    CASE err.variant = "DocumentNotFound" -> Err("DocumentDoesNotExist", "", <<>>, <<>>)
      [] err.variant = "BadCredentials" -> Err("BadAuth", "", <<>>, <<>>)
      [] err.variant = "AdapterError" -> Err("DocumentRetrieveFailed", "", <<>>, err.cause)

\* Mutation of MapDocRetrieveError: only DocumentNotFound has an arm of its own.
MapDocRetrieveErrorCatchAll(err, document_id) ==
    CASE err.variant = "DocumentNotFound" -> Err("DocumentDoesNotExist", document_id, <<>>, <<>>)
      [] OTHER -> Err("DocumentRetrieveFailed", "", <<>>, err.cause)

\* the error arms of the match on reader.retrieve_one()
MapDocRetrieveError(err, document_id) ==
    CASE err.variant = "DocumentNotFound" -> Err("DocumentDoesNotExist", document_id, <<>>, <<>>)
      [] err.variant = "BadCredentials" -> Err("BadAuth", "", <<>>, <<>>)
      [] err.variant = "AdapterError" -> Err("DocumentRetrieveFailed", "", <<>>, err.cause)

\* `options.suggested_name.unwrap_or(getout_document.title.as_str())`
BaseName(options, document) ==
    IF IsSome(options.suggested_name) THEN options.suggested_name[1] ELSE document.title

\* Mutation of DeriveName: the suffix is compared without lowercasing.
DeriveNameCaseSensitive(base) ==
    IF ~EndsWith(base, DotMd) THEN base \o DotMd ELSE base

\* Mutation of DeriveName: the suffix is appended without looking.
DeriveNameAlwaysAppend(base) == base \o DotMd

\* `if !doc_name.to_lowercase().ends_with(".md") { doc_name += ".md"; }`
DeriveName(base) ==
    IF ~EndsWith(ToLowercase(base), DotMd) THEN base \o DotMd ELSE base

\* Mutation of MapSaveError: every save failure is reported as a collision.
MapSaveErrorAsCollision(error) == Err("SameNameCouldNotSave", "", error.name, <<>>)

\* the match on the error of saver.save_document()
MapSaveError(error) ==
    CASE error.variant = "TargetWithSameNameExists" ->
            Err("SameNameCouldNotSave", "", error.name, <<>>)
      [] error.variant = "AdapterError" -> Err("DocumentSaveFailed", "", <<>>, error.cause)

RetrieveInvoke(document_id, options) ==
    /\ pc = "idle"
    /\ pc' = "retrieve_read"
    /\ args' = [fn |-> "retrieve", document_id |-> document_id, options |-> options]
    /\ UNCHANGED <<user, reader_list_opts, getout_document, doc_name, calls, result, stdout>>
    /\ UNCHANGED adapterVars

RetrieveReaderOk(document) ==
    /\ pc = "retrieve_read"
    /\ calls' = Append(calls, Call("retrieve_one", args.document_id, OkRet(document)))
    /\ getout_document' = Some(document)
    /\ pc' = "retrieve_name"
    /\ UNCHANGED <<args, user, reader_list_opts, doc_name, result, stdout>>
    /\ UNCHANGED adapterVars

RetrieveReaderErr(err) ==
    /\ pc = "retrieve_read"
    /\ calls' = Append(calls, Call("retrieve_one", args.document_id, ErrRet(err)))
    /\ result' = MapDocRetrieveError(err, args.document_id)
    /\ pc' = "done"
    /\ UNCHANGED <<args, user, reader_list_opts, getout_document, doc_name, stdout>>
    /\ UNCHANGED adapterVars

RetrieveDeriveName ==
    /\ pc = "retrieve_name"
    /\ doc_name' = Some(DeriveName(BaseName(args.options, getout_document[1])))
    /\ pc' = "retrieve_save"
    /\ UNCHANGED <<args, user, reader_list_opts, getout_document, calls, result, stdout>>
    /\ UNCHANGED adapterVars

RetrieveSaverOk ==
    /\ pc = "retrieve_save"
    /\ calls' = Append(calls, Call("save_document",
                                   [content |-> getout_document[1].text, name |-> doc_name[1]],
                                   OkRet(<<>>)))
    /\ result' = Ok
    /\ pc' = "done"
    /\ UNCHANGED <<args, user, reader_list_opts, getout_document, doc_name, stdout>>
    /\ UNCHANGED adapterVars

\* Mutation of RetrieveSaverErr: a failed save is tried a second time.
RetrieveSaverErrRetry ==
    /\ pc = "retrieve_save"
    /\ \E error \in SaveErrors(doc_name[1]) :
          /\ calls' = calls \o
                <<Call("save_document",
                       [content |-> getout_document[1].text, name |-> doc_name[1]],
                       ErrRet(error)),
                  Call("save_document",
                       [content |-> getout_document[1].text, name |-> doc_name[1]],
                       ErrRet(error))>>
          /\ result' = MapSaveError(error)
    /\ pc' = "done"
    /\ UNCHANGED <<args, user, reader_list_opts, getout_document, doc_name, stdout>>
    /\ UNCHANGED adapterVars

RetrieveSaverErr ==
    /\ pc = "retrieve_save"
    /\ \E error \in SaveErrors(doc_name[1]) :
          /\ calls' = Append(calls, Call("save_document",
                                         [content |-> getout_document[1].text, name |-> doc_name[1]],
                                         ErrRet(error)))
          /\ result' = MapSaveError(error)
    /\ pc' = "done"
    /\ UNCHANGED <<args, user, reader_list_opts, getout_document, doc_name, stdout>>
    /\ UNCHANGED adapterVars

\* The process runs one command and exits: "done" is final.
Next ==
    \/ \E list_opts \in ListOptionsInputs : ListInvoke(list_opts)
    \/ ListSkipAuth
    \/ \E auth_info \in AuthInfos : ListAuthOk(auth_info)
    \/ \E err \in AuthRetrieveErrors : ListAuthErr(err)
    \/ ListBuildOptions
    \/ \E documents \in DocumentLists : ListReaderOk(documents)
    \/ \E err \in ReaderListErrors : ListReaderErr(err)
    \/ \E document_id \in DocumentIds, options \in RetrieveOptionsInputs :
          RetrieveInvoke(document_id, options)
    \/ \E document \in DocContents : RetrieveReaderOk(document)
    \/ \E err \in DocRetrieveErrors : RetrieveReaderErr(err)
    \/ RetrieveDeriveName
    \/ RetrieveSaverOk
    \/ RetrieveSaverErr

Spec == Init /\ [][Next]_vars

\* Every port call is a blocking call that returns, and the code between two
\* calls runs to the next one: a step that is possible is eventually taken.
FairSpec == Spec /\ WF_vars(Next)


\* ------------------------------------------- file_saver::FileDocumentSaver
\* `retrieve` run by the "documents save" command, whose saver is
\* FileDocumentSaver: save_document works on the files of the working
\* directory, which other processes use at the same time, and the command is
\* run again after it has exited.

\* Number of commands run one after the other.
MaxRuns == 2

\* `content.as_bytes()`
Bytes(text) ==
    CASE text = "" -> <<>>
      [] text = "Hello world!" -> <<"H", "e", "l", "l", "o", " ", "w", "o", "r", "l", "d", "!">>

\* What a write that stops early can have put into the file.
Prefixes(bytes) == {SubSeq(bytes, 1, k) : k \in 0..Len(bytes)}

\* Arguments of the save_document call of the running retrieve.
SaveName == doc_name[1]
SaveContent == Bytes(getout_document[1].text)

\* `target_path.exists()`: names are joined to "." and hold no separator.
FileExists(name) == name \in DOMAIN files

\* The directory with the file `name` holding `bytes`.
WriteFile(name, bytes) ==
    [n \in DOMAIN files \cup {name} |-> IF n = name THEN bytes ELSE files[n]]

\* The directory without the file `name`.
RemoveFile(name) == [n \in DOMAIN files \ {name} |-> files[n]]

\* std::io::Error wrapped by anyhow::Error::new(err).context(message)
IoError(message) ==
    [variant |-> "AdapterError", name |-> <<>>, cause |-> Context(<<"io error">>, message)]

FileRetrieveOptions == {[suggested_name |-> n] : n \in {None, Some(<<"a", ".", "M", "D">>)}}
FileDocContents == {d \in DocContents : d.title = <<"a">>}
FileTargets == {<<"a", ".", "m", "d">>, <<"a", ".", "M", "D">>}
OtherContent == <<"x">>

logicVars == <<pc, args, user, reader_list_opts, getout_document, doc_name, calls, result, stdout>>

\* retrieve reaches `saver.save_document(&getout_document.text, &doc_name)`
FileSaveCall ==
    /\ pc = "retrieve_save"
    /\ save.pc = "idle"
    /\ save' = [SaveIdle EXCEPT !.pc = "exists"]
    /\ UNCHANGED <<logicVars, files, saves, runs, requests>>

\* `if target_path.exists() { return Err(TargetWithSameNameExists { .. }) }`
FileSaveExists ==
    /\ save.pc = "exists"
    /\ IF FileExists(SaveName)
       THEN save' = [pc |-> "returned", created |-> FALSE,
                     ret |-> ErrRet([variant |-> "TargetWithSameNameExists",
                                     name |-> SaveName, cause |-> <<>>])]
       ELSE save' = [save EXCEPT !.pc = "create"]
    /\ UNCHANGED <<logicVars, files, saves, runs, requests>>

\* File::create succeeds: the file is created, or truncated when it exists.
FileSaveCreateOk ==
    /\ save.pc = "create"
    /\ files' = WriteFile(SaveName, <<>>)
    /\ save' = [save EXCEPT !.pc = "write", !.created = TRUE]
    /\ UNCHANGED <<logicVars, saves, runs, requests>>

\* File::create fails.
FileSaveCreateErr ==
    /\ save.pc = "create"
    /\ save' = [save EXCEPT !.pc = "returned",
                            !.ret = ErrRet(IoError("failed opening file to save document"))]
    /\ UNCHANGED <<logicVars, files, saves, runs, requests>>

\* writer.write_all succeeds: the bytes are in the BufWriter, or, for a
\* content that does not fit its buffer, in the file.
FileSaveWriteOk ==
    /\ save.pc = "write"
    /\ \E through \in BOOLEAN :
          files' = IF through THEN WriteFile(SaveName, SaveContent) ELSE files
    /\ save' = [save EXCEPT !.pc = "flush"]
    /\ UNCHANGED <<logicVars, saves, runs, requests>>

\* Mutation of FileSaveWriteErr: the file is removed when the write fails.
FileSaveWriteErrCleanup ==
    /\ save.pc = "write"
    /\ files' = RemoveFile(SaveName)
    /\ save' = [save EXCEPT !.pc = "returned",
                            !.ret = ErrRet(IoError("failed writing bytes to file"))]
    /\ UNCHANGED <<logicVars, saves, runs, requests>>

\* writer.write_all fails: `?` returns, the file stays with what was written.
FileSaveWriteErr ==
    /\ save.pc = "write"
    /\ \E written \in Prefixes(SaveContent) : files' = WriteFile(SaveName, written)
    /\ save' = [save EXCEPT !.pc = "returned",
                            !.ret = ErrRet(IoError("failed writing bytes to file"))]
    /\ UNCHANGED <<logicVars, saves, runs, requests>>

\* writer.flush succeeds and save_document returns Ok(()).
FileSaveFlushOk ==
    /\ save.pc = "flush"
    /\ files' = WriteFile(SaveName, SaveContent)
    /\ save' = [save EXCEPT !.pc = "returned", !.ret = OkRet(<<>>)]
    /\ UNCHANGED <<logicVars, saves, runs, requests>>

\* writer.flush fails: `?` returns, the file stays with what was written.
FileSaveFlushErr ==
    /\ save.pc = "flush"
    /\ \E written \in Prefixes(SaveContent) :
          /\ Len(written) >= Len(files[SaveName])
          /\ files' = WriteFile(SaveName, written)
    /\ save' = [save EXCEPT !.pc = "returned",
                            !.ret = ErrRet(IoError("failed completion of write"))]
    /\ UNCHANGED <<logicVars, saves, runs, requests>>

\* save_document has returned: the rest of retrieve.
RetrieveFileSaverReturn ==
    /\ pc = "retrieve_save"
    /\ save.pc = "returned"
    /\ calls' = Append(calls, Call("save_document",
                                   [content |-> getout_document[1].text, name |-> SaveName],
                                   save.ret))
    /\ result' = IF save.ret.tag = "Ok" THEN Ok ELSE MapSaveError(save.ret.err)
    /\ pc' = "done"
    /\ saves' = Append(saves, [name |-> SaveName, content |-> SaveContent,
                               created |-> save.created, ret |-> save.ret])
    /\ save' = SaveIdle
    /\ UNCHANGED <<args, user, reader_list_opts, getout_document, doc_name, stdout>>
    /\ UNCHANGED <<files, runs, requests>>

\* Another process creates a file in the working directory.
OtherProcessCreates(name) ==
    /\ ~FileExists(name)
    /\ files' = WriteFile(name, OtherContent)
    /\ UNCHANGED <<logicVars, save, saves, runs, requests>>

\* The command has ended and the next one is started; the files stay.
Exit ==
    /\ pc = "done"
    /\ runs < MaxRuns
    /\ runs' = runs + 1
    /\ pc' = "idle"
    /\ args' = NoArgs
    /\ user' = None
    /\ reader_list_opts' = None
    /\ getout_document' = None
    /\ doc_name' = None
    /\ calls' = <<>>
    /\ result' = NoResult
    /\ stdout' = <<>>
    /\ requests' = <<>>
    /\ UNCHANGED <<files, save, saves>>

FileNext ==
    \/ \E options \in FileRetrieveOptions : RetrieveInvoke("abc123", options)
    \/ \E document \in FileDocContents : RetrieveReaderOk(document)
    \/ \E err \in DocRetrieveErrors : RetrieveReaderErr(err)
    \/ RetrieveDeriveName
    \/ FileSaveCall
    \/ FileSaveExists
    \/ FileSaveCreateOk
    \/ FileSaveCreateErr
    \/ FileSaveWriteOk
    \/ FileSaveWriteErr
    \/ FileSaveFlushOk
    \/ FileSaveFlushErr
    \/ RetrieveFileSaverReturn
    \/ \E name \in FileTargets : OtherProcessCreates(name)
    \/ Exit

FileSpec == Init /\ [][FileNext]_vars

\* ------------------------------------ getoutline_connection (HTTP adapters)
\* The commands as command::documents wires them: AuthReader and
\* DocumentReader are the reqwest BlockingClient, the saver is
\* FileDocumentSaver.  The server's answer to a request is the environment's
\* choice.

\* reqwest::StatusCode
OK == 200
NOT_MODIFIED == 304
UNAUTHORIZED == 401
NOT_FOUND == 404
INTERNAL_SERVER_ERROR == 500
Statuses == {OK, NOT_MODIFIED, UNAUTHORIZED, NOT_FOUND, INTERNAL_SERVER_ERROR}

\* What `send()` meets: no response, or a response with a status and a body
\* that is the JSON of a DataEnvelope<T> (Some) or is not (None).
SendFailure == [sent |-> FALSE, status |-> 0, data |-> None]
Responses(datas) ==
    {SendFailure}
    \cup {[sent |-> TRUE, status |-> st, data |-> d] :
            st \in Statuses, d \in {None} \cup {Some(v) : v \in datas}}

AuthResponses == Responses(AuthInfos)
ListResponses == Responses(DocumentLists)
RetrieveResponses == Responses(FileDocContents)

\* reqwest::Error and its status(): Some only for an error made by
\* error_for_status.
RequestError == [kind |-> "request", status |-> None]
StatusError(code) == [kind |-> "status", status |-> Some(code)]
DecodeError == [kind |-> "decode", status |-> None]

\* APIError::failed_trying_to
FailedTryingTo(action, cause) == [action |-> action, original_error |-> cause]

\* `.send()?.error_for_status()?` then `.json()?`, with the three actions
\* the caller names; Ok carries `envelope.data`.
Exchange(response, send_action, status_action, json_action) ==
    IF ~response.sent
    THEN ErrRet(FailedTryingTo(send_action, RequestError))
    ELSE IF response.status >= 400 /\ response.status <= 599
    THEN ErrRet(FailedTryingTo(status_action, StatusError(response.status)))
    ELSE IF ~IsSome(response.data)
    THEN ErrRet(FailedTryingTo(json_action, DecodeError))
    ELSE OkRet(response.data[1])

\* getoutline_connection::auth::current
ApiCurrent(response) ==
    Exchange(response, "get authentication data (send failure)",
             "get authentication data (bad status)", "parse authentication data")

\* getoutline_connection::documents::list
ApiList(response) ==
    Exchange(response, "list documents in GetOutline (send failure)",
             "list documents in GetOutline (bad status)",
             "read list of documents in GetOutline")

\* getoutline_connection::documents::retrieve_one
ApiRetrieveOne(response) ==
    Exchange(response, "request the content of a document (failed request)",
             "request the content of a document (bad status)",
             "parse document content request")

\* anyhow::Error::new(err) of an APIError: its message, then its source.
ApiCause(err) == <<err.action, err.original_error.kind>>

\* From<UserInfo>, From<AuthInfo>, From<ListEntry>, From<RetrieveResponse>
UserInfoFrom(value) == [id |-> value.id, name |-> value.name]
AuthInfoFrom(value) == [user |-> UserInfoFrom(value.user)]
ListEntryFrom(value) == [id |-> value.id, title |-> value.title]
DocContentFrom(value) == [id |-> value.id, title |-> value.title, text |-> value.text]

\* From<&ReaderListOptions> for ListRequest, and its Serialize: `user` is
\* skipped when None.
ListRequestFrom(value) == [offset |-> value.offset, limit |-> value.limit, user |-> value.user]
ListRequestJson(request) ==
    <<<<"offset", request.offset>>, <<"limit", request.limit>>>>
    \o (IF IsSome(request.user) THEN <<<<"user", request.user[1]>>>> ELSE <<>>)
RetrieveRequestJson(doc_id) == <<<<"id", doc_id>>>>

\* impl AuthReader for BlockingClient
ClientCurrent(response) ==
    LET r == ApiCurrent(response)
    IN  IF r.tag = "Ok"
        THEN OkRet(AuthInfoFrom(r.val))
        ELSE ErrRet([variant |-> "AdapterError", cause |-> ApiCause(r.err)])

\* Mutation of ClientList: every error status is a credentials failure.
ClientListAnyStatus(response) ==
    LET r == ApiList(response)
    IN  IF r.tag = "Ok"
        THEN OkRet([i \in 1..Len(r.val) |-> ListEntryFrom(r.val[i])])
        ELSE IF IsSome(r.err.original_error.status)
        THEN ErrRet([variant |-> "BadCredentials", cause |-> <<>>])
        ELSE ErrRet([variant |-> "AdapterError", cause |-> ApiCause(r.err)])

\* impl DocumentReader for BlockingClient: list
ClientList(response) ==
    LET r == ApiList(response)
    IN  IF r.tag = "Ok"
        THEN OkRet([i \in 1..Len(r.val) |-> ListEntryFrom(r.val[i])])
        ELSE IF r.err.original_error.status = Some(UNAUTHORIZED)
        THEN ErrRet([variant |-> "BadCredentials", cause |-> <<>>])
        ELSE ErrRet([variant |-> "AdapterError", cause |-> ApiCause(r.err)])

\* Mutation of ClientRetrieveOne: NOT_FOUND has no arm of its own.
ClientRetrieveOneNoNotFound(response) ==
    LET r == ApiRetrieveOne(response)
    IN  IF r.tag = "Ok"
        THEN OkRet(DocContentFrom(r.val))
        ELSE IF r.err.original_error.status = Some(UNAUTHORIZED)
        THEN ErrRet([variant |-> "BadCredentials", cause |-> <<>>])
        ELSE ErrRet([variant |-> "AdapterError", cause |-> ApiCause(r.err)])

\* impl DocumentReader for BlockingClient: retrieve_one
ClientRetrieveOne(response) ==
    LET r == ApiRetrieveOne(response)
    IN  IF r.tag = "Ok"
        THEN OkRet(DocContentFrom(r.val))
        ELSE IF r.err.original_error.status = Some(UNAUTHORIZED)
        THEN ErrRet([variant |-> "BadCredentials", cause |-> <<>>])
        ELSE IF r.err.original_error.status = Some(NOT_FOUND)
        THEN ErrRet([variant |-> "DocumentNotFound", cause |-> <<>>])
        ELSE ErrRet([variant |-> "AdapterError", cause |-> ApiCause(r.err)])

Request(endpoint, body, response) ==
    [endpoint |-> endpoint, body |-> body, response |-> response]

\* list: `auth_reader.current()` on the client, and what list does with it.
HttpListAuth(response) ==
    /\ pc = "list_auth"
    /\ ShouldReadAuth(args.list_opts)
    /\ requests' = Append(requests, Request("auth.info", None, response))
    /\ LET ret == ClientCurrent(response)
       IN  /\ calls' = Append(calls, Call("current", <<>>, ret))
           /\ IF ret.tag = "Ok"
              THEN /\ user' = Some(ret.val.user)
                   /\ pc' = "list_opts"
                   /\ UNCHANGED result
              ELSE /\ result' = MapAuthError(ret.err)
                   /\ pc' = "done"
                   /\ UNCHANGED user
    /\ UNCHANGED <<args, reader_list_opts, getout_document, doc_name, stdout>>
    /\ UNCHANGED <<files, save, saves, runs>>

\* list: `doc_reader.list(&reader_list_opts)` on the client, and the rest of
\* list.
HttpListReader(response) ==
    /\ pc = "list_call"
    /\ requests' = Append(requests,
                          Request("documents.list",
                                  Some(ListRequestJson(ListRequestFrom(reader_list_opts[1]))),
                                  response))
    /\ LET ret == ClientList(response)
       IN  /\ calls' = Append(calls, Call("list", reader_list_opts[1], ret))
           /\ IF ret.tag = "Ok"
              THEN /\ stdout' = stdout \o PrintListing(ret.val, args.list_opts.page)
                   /\ result' = Ok
              ELSE /\ result' = MapReaderListError(ret.err)
                   /\ UNCHANGED stdout
    /\ pc' = "done"
    /\ UNCHANGED <<args, user, reader_list_opts, getout_document, doc_name>>
    /\ UNCHANGED <<files, save, saves, runs>>

\* retrieve: `reader.retrieve_one(document_id)` on the client, and the match
\* on its result.
HttpRetrieveReader(response) ==
    /\ pc = "retrieve_read"
    /\ requests' = Append(requests,
                          Request("documents.info",
                                  Some(RetrieveRequestJson(args.document_id)), response))
    /\ LET ret == ClientRetrieveOne(response)
       IN  /\ calls' = Append(calls, Call("retrieve_one", args.document_id, ret))
           /\ IF ret.tag = "Ok"
              THEN /\ getout_document' = Some(ret.val)
                   /\ pc' = "retrieve_name"
                   /\ UNCHANGED result
              ELSE /\ result' = MapDocRetrieveError(ret.err, args.document_id)
                   /\ pc' = "done"
                   /\ UNCHANGED getout_document
    /\ UNCHANGED <<args, user, reader_list_opts, doc_name, stdout>>
    /\ UNCHANGED <<files, save, saves, runs>>

HttpListOptions ==
    {[page |-> p, results_per_page |-> U32(0, DefaultResultsPerPage), own_documents_only |-> o] :
        p \in {U32(0, 0), U32(0, 1)}, o \in BOOLEAN}

HttpNext ==
    \/ \E list_opts \in HttpListOptions : ListInvoke(list_opts)
    \/ ListSkipAuth
    \/ \E response \in AuthResponses : HttpListAuth(response)
    \/ ListBuildOptions
    \/ \E response \in ListResponses : HttpListReader(response)
    \/ \E options \in FileRetrieveOptions : RetrieveInvoke("abc123", options)
    \/ \E response \in RetrieveResponses : HttpRetrieveReader(response)
    \/ RetrieveDeriveName
    \/ FileSaveCall
    \/ FileSaveExists
    \/ FileSaveCreateOk
    \/ FileSaveCreateErr
    \/ FileSaveWriteOk
    \/ FileSaveWriteErr
    \/ FileSaveFlushOk
    \/ FileSaveFlushErr
    \/ RetrieveFileSaverReturn
    \/ \E name \in FileTargets : OtherProcessCreates(name)

HttpSpec == Init /\ [][HttpNext]_vars

\* ------------------------------------------------------------------ claims
ListCalls == CallsOf("list")
CurrentCalls == CallsOf("current")
RetrieveOneCalls == CallsOf("retrieve_one")
SaveCalls == CallsOf("save_document")

Range(seq) == {seq[i] : i \in 1..Len(seq)}

\* C1: a listing with own_documents_only = false never calls
\* AuthReader::current(), whatever the document reader returns.
C1_NoAuthLookupForAllDocuments ==
    (args.fn = "list" /\ ~args.list_opts.own_documents_only) => CurrentCalls = <<>>

\* A listing of all documents has called the reader and returned.
C1_Witness ==
    /\ pc = "done"
    /\ args.fn = "list"
    /\ ~args.list_opts.own_documents_only
    /\ Len(ListCalls) = 1

\* C2: with own_documents_only = true and current() returning user U, the
\* options passed to DocumentReader::list have user = Some(U.id); and
\* user = None exactly when own_documents_only = false.
C2_UserFilterIsAuthenticatedId ==
    \A c \in Range(ListCalls) :
        /\ \A a \in Range(CurrentCalls) :
              (args.list_opts.own_documents_only /\ a.ret.tag = "Ok")
                  => c.args.user = Some(a.ret.val.user.id)
        /\ (c.args.user = None) <=> ~args.list_opts.own_documents_only

\* The reader was asked for the documents of the user current() returned.
C2_Witness ==
    /\ args.fn = "list"
    /\ args.list_opts.own_documents_only
    /\ \E a \in Range(CurrentCalls) : a.ret = OkRet([user |-> [id |-> "abc-def-ghi", name |-> "John Doe"]])
    /\ \E c \in Range(ListCalls) : c.args.user = Some("abc-def-ghi")

\* C3: for all page and results_per_page in the u32 range, list calls
\* DocumentReader::list with offset equal to the mathematical product
\* page * results_per_page and limit = results_per_page, also when the
\* product exceeds 2^32 - 1.
C3_OffsetIsMathematicalProduct ==
    (args.fn = "list" /\ pc = "done" /\ result.variant # "CouldNotGetAuth") =>
        /\ Len(ListCalls) = 1
        /\ Widen(ListCalls[1].args.offset)
              = MulWide(args.list_opts.page, args.list_opts.results_per_page)
        /\ ListCalls[1].args.limit = args.list_opts.results_per_page

\* C4: when own_documents_only = true and current() fails with
\* AdapterError, list returns ListError::CouldNotGetAuth and
\* DocumentReader::list is not called in the invocation.
C4_AuthFailureStopsListing ==
    \A a \in Range(CurrentCalls) :
        (a.ret.tag = "Err" /\ a.ret.err.variant = "AdapterError") =>
            /\ pc = "done"
            /\ result.tag = "Err"
            /\ result.variant = "CouldNotGetAuth"
            /\ ListCalls = <<>>

\* current() has failed in a listing of the user's own documents.
C4_Witness ==
    /\ args.fn = "list"
    /\ args.list_opts.own_documents_only
    /\ \E a \in Range(CurrentCalls) : a.ret.tag = "Err"
    /\ pc = "done"

\* C5: when DocumentReader::list fails, list returns BadCredentials iff the
\* reader error is BadCredentials and CouldNotListDocuments iff it is
\* AdapterError; never Ok and never CouldNotGetAuth.
C5_ReaderListErrorMapping ==
    \A c \in Range(ListCalls) :
        c.ret.tag = "Err" =>
            /\ pc = "done"
            /\ result.tag = "Err"
            /\ result.variant \in {"BadCredentials", "CouldNotListDocuments"}
            /\ (result.variant = "BadCredentials") <=> (c.ret.err.variant = "BadCredentials")
            /\ (result.variant = "CouldNotListDocuments") <=> (c.ret.err.variant = "AdapterError")

\* The reader has failed with an adapter error after a successful identity lookup.
C5_Witness ==
    /\ pc = "done"
    /\ \E a \in Range(CurrentCalls) : a.ret.tag = "Ok"
    /\ \E c \in Range(ListCalls) : c.ret.tag = "Err" /\ c.ret.err.variant = "AdapterError"

\* C6: when retrieve_one(D) reports DocumentNotFound, retrieve returns
\* DocumentDoesNotExist whose requested_id is the caller's D, and
\* save_document is not invoked.
C6_NotFoundCarriesRequestedId ==
    \A c \in Range(RetrieveOneCalls) :
        (c.ret.tag = "Err" /\ c.ret.err.variant = "DocumentNotFound") =>
            /\ pc = "done"
            /\ result.tag = "Err"
            /\ result.variant = "DocumentDoesNotExist"
            /\ result.requested_id = args.document_id
            /\ c.args = args.document_id
            /\ SaveCalls = <<>>

\* retrieve("abc123") was answered DocumentNotFound.
C6_Witness ==
    /\ args.fn = "retrieve"
    /\ args.document_id = "abc123"
    /\ pc = "done"
    /\ \E c \in Range(RetrieveOneCalls) :
          c.ret.tag = "Err" /\ c.ret.err.variant = "DocumentNotFound"

\* C7: when retrieve_one fails with BadCredentials, retrieve returns BadAuth;
\* when it fails with AdapterError, retrieve returns DocumentRetrieveFailed;
\* in both cases save_document is not invoked.
C7_RetrieveOneErrorMapping ==
    \A c \in Range(RetrieveOneCalls) :
        /\ (c.ret.tag = "Err" /\ c.ret.err.variant = "BadCredentials") =>
              /\ pc = "done"
              /\ result.tag = "Err"
              /\ result.variant = "BadAuth"
              /\ SaveCalls = <<>>
        /\ (c.ret.tag = "Err" /\ c.ret.err.variant = "AdapterError") =>
              /\ pc = "done"
              /\ result.tag = "Err"
              /\ result.variant = "DocumentRetrieveFailed"
              /\ SaveCalls = <<>>

\* retrieve_one has failed with BadCredentials and retrieve has returned.
C7_Witness ==
    /\ args.fn = "retrieve"
    /\ pc = "done"
    /\ \E c \in Range(RetrieveOneCalls) :
          c.ret.tag = "Err" /\ c.ret.err.variant = "BadCredentials"

\* "ends with .md in any letter case", spelled out character by character.
EndsWithMdAnyCase(s) ==
    /\ Len(s) >= 3
    /\ s[Len(s) - 2] = "."
    /\ s[Len(s) - 1] \in {"m", "M"}
    /\ s[Len(s)] \in {"d", "D"}

\* C8: after a successful retrieve_one, save_document is called with the
\* retrieved text and with the name: base = suggested_name if present, else
\* the title; name = base if base ends with ".md" in any letter case, else
\* base followed by ".md".  The base is an unaltered prefix of the name.
C8_SavedNameAndContent ==
    \A c \in Range(SaveCalls) :
        /\ Len(RetrieveOneCalls) = 1
        /\ RetrieveOneCalls[1].ret.tag = "Ok"
        /\ LET document == RetrieveOneCalls[1].ret.val
               base == IF args.options.suggested_name # None
                       THEN args.options.suggested_name[1]
                       ELSE document.title
           IN  /\ c.args.content = document.text
               /\ c.args.name = IF EndsWithMdAnyCase(base) THEN base ELSE base \o <<".", "m", "d">>
               /\ SubSeq(c.args.name, 1, Len(base)) = base

\* The document was saved under the suggested name "New.Md", left as it is.
C8_Witness ==
    /\ args.fn = "retrieve"
    /\ args.options.suggested_name = Some(<<"N", "e", "w", ".", "M", "d">>)
    /\ \E c \in Range(SaveCalls) :
          c.args = [content |-> "Hello world!", name |-> <<"N", "e", "w", ".", "M", "d">>]

\* C9: deriving a save name from a derived name gives the same name, so
\* the ".md" suffix is never duplicated, whatever its letter case.
C9_DeriveNameIdempotent ==
    \A c \in Range(SaveCalls) : DeriveName(c.args.name) = c.args.name

\* A title that ends with ".MD" was used as the save name.
C9_Witness ==
    /\ args.fn = "retrieve"
    /\ args.options.suggested_name = None
    /\ \E c \in Range(SaveCalls) : c.args.name = <<"a", ".", "M", "D">>

\* C10: when save_document, called with the derived name N, reports
\* TargetWithSameNameExists, retrieve returns SameNameCouldNotSave whose
\* name is N, whatever name the saver's error carries, and makes no
\* further save_document call.
C10_CollisionReportsPassedName ==
    \A c \in Range(SaveCalls) :
        (c.ret.tag = "Err" /\ c.ret.err.variant = "TargetWithSameNameExists") =>
            /\ pc = "done"
            /\ result.tag = "Err"
            /\ result.variant = "SameNameCouldNotSave"
            /\ result.name = c.args.name
            /\ Len(SaveCalls) = 1

\* C11: when save_document fails with SaveError::AdapterError, retrieve
\* returns DocumentSaveFailed, never SameNameCouldNotSave and never Ok.
C11_SaveAdapterErrorMapping ==
    \A c \in Range(SaveCalls) :
        (c.ret.tag = "Err" /\ c.ret.err.variant = "AdapterError") =>
            /\ pc = "done"
            /\ result.tag = "Err"
            /\ result.variant = "DocumentSaveFailed"

\* save_document has failed with an adapter error and retrieve has returned.
C11_Witness ==
    /\ args.fn = "retrieve"
    /\ pc = "done"
    /\ \E c \in Range(SaveCalls) : c.ret.tag = "Err" /\ c.ret.err.variant = "AdapterError"

Methods(cs) == [i \in 1..Len(cs) |-> cs[i].method]

\* C12: an invocation of retrieve calls retrieve_one exactly once and
\* save_document at most once; when it returns Ok, save_document was called
\* exactly once, after retrieve_one; no port call follows a failed one.
C12_RetrieveCallSequence ==
    args.fn = "retrieve" =>
        /\ Len(RetrieveOneCalls) = (IF pc = "retrieve_read" THEN 0 ELSE 1)
        /\ Len(SaveCalls) <= 1
        /\ Len(calls) = Len(RetrieveOneCalls) + Len(SaveCalls)
        /\ result.tag = "Ok" => Methods(calls) = <<"retrieve_one", "save_document">>
        /\ \A i \in 1..Len(calls) : calls[i].ret.tag = "Err" => (i = Len(calls) /\ pc = "done")
        /\ SaveCalls # <<>> => Methods(calls) = <<"retrieve_one", "save_document">>

\* retrieve has returned after a failed save: one read, then one write.
C12_Witness ==
    /\ args.fn = "retrieve"
    /\ pc = "done"
    /\ result.tag = "Err"
    /\ Methods(calls) = <<"retrieve_one", "save_document">>

InjectiveOnVariants(errs, f(_)) ==
    \A e1, e2 \in errs : e1.variant # e2.variant => f(e1).variant # f(e2).variant

\* C17: list returns Ok iff every port call it made returned Ok; retrieve
\* returns Ok iff retrieve_one and save_document both returned Ok; every
\* port-level error variant yields one caller-facing variant, and distinct
\* variants of the same call yield distinct caller-facing variants.
C17_NoErrorSwallowed ==
    /\ (pc = "done" /\ args.fn = "list") =>
          ((result.tag = "Ok") <=> (\A i \in 1..Len(calls) : calls[i].ret.tag = "Ok"))
    /\ (pc = "done" /\ args.fn = "retrieve") =>
          ((result.tag = "Ok") <=>
              /\ \E c \in Range(RetrieveOneCalls) : c.ret.tag = "Ok"
              /\ \E c \in Range(SaveCalls) : c.ret.tag = "Ok")
    /\ \A i \in 1..Len(calls) : calls[i].ret.tag = "Err" => result.tag = "Err"
    /\ InjectiveOnVariants(AuthRetrieveErrors, MapAuthError)
    /\ InjectiveOnVariants(ReaderListErrors, MapReaderListError)
    /\ InjectiveOnVariants(DocRetrieveErrors, LAMBDA e : MapDocRetrieveError(e, "abc123"))
    /\ InjectiveOnVariants(SaveErrors(DotMd), MapSaveError)

\* The port calls of an invocation, in the order the code makes them.
CallOrder ==
    /\ Len(calls) <= 2
    /\ args.fn = "list" =>
          /\ Methods(calls) \in {<<>>, <<"current">>, <<"list">>, <<"current", "list">>}
          /\ CurrentCalls # <<>> => args.list_opts.own_documents_only
    /\ args.fn = "retrieve" =>
          Methods(calls) \in {<<>>, <<"retrieve_one">>, <<"retrieve_one", "save_document">>}

\* C18: every invocation of list or retrieve makes at most two port calls,
\* in sequence (current before list, retrieve_one before save_document), and
\* then returns; provided each port call returns, the invocation terminates.
C18_TwoSequentialCallsThenReturn ==
    /\ []CallOrder
    /\ [](pc = "done" => result.tag \in {"Ok", "Err"})
    /\ [](pc # "idle" => <>(pc = "done"))

TargetExistsError(name) ==
    ErrRet([variant |-> "TargetWithSameNameExists", name |-> name, cause |-> <<>>])

\* C13: FileDocumentSaver::save_document never truncates or overwrites a
\* file that exists at the target path at the moment of writing: when the
\* target exists at File::create, also because another process created it
\* after the existence check, save_document fails with
\* TargetWithSameNameExists and the file keeps its content.
C13_NeverOverwritesExistingTarget ==
    [][(save.pc = "create" /\ save'.pc # "create" /\ FileExists(SaveName)) =>
          /\ files' = files
          /\ save'.ret = TargetExistsError(SaveName)]_vars

\* C19: when save_document fails with AdapterError after File::create
\* succeeded, the target file is left in place, so a following
\* save_document with the same name fails with TargetWithSameNameExists
\* without touching the file, and the retrieve that made it returns
\* SameNameCouldNotSave.
C19_LeftoverFileBlocksLaterSave ==
    \A i \in 1..Len(saves) :
        (saves[i].created /\ saves[i].ret.tag = "Err") =>
            /\ saves[i].ret.err.variant = "AdapterError"
            /\ saves[i].name \in DOMAIN files
            /\ \A j \in (i + 1)..Len(saves) :
                  saves[j].name = saves[i].name =>
                      /\ saves[j].ret = TargetExistsError(saves[i].name)
                      /\ ~saves[j].created
                      /\ (j = Len(saves) /\ pc = "done" /\ SaveCalls # <<>>) =>
                            /\ result.tag = "Err"
                            /\ result.variant = "SameNameCouldNotSave"
                            /\ result.name = saves[i].name

\* A save failed after creating "a.md"; the next command, saving under the
\* same name, has returned.
C19_Witness ==
    /\ Len(saves) = 2
    /\ saves[1].created
    /\ saves[1].ret.tag = "Err"
    /\ saves[2].name = saves[1].name
    /\ pc = "done"
    /\ SaveCalls # <<>>
    /\ result.variant = "SameNameCouldNotSave"

\* A response the adapter cannot turn into a value, and a response of a status.
Failed(response) ==
    \/ ~response.sent
    \/ response.status \in 400..599
    \/ response.data = None
Answered(response, code) == response.sent /\ response.status = code

\* C16: in the HTTP adapter for DocumentReader, a response with status 401
\* is BadCredentials for list and for retrieve_one, a response with status
\* 404 is DocumentNotFound for retrieve_one, and every other failure (other
\* error status, send failure, unreadable body, 404 on list) is AdapterError.
C16_HttpReaderErrorMapping ==
    \A i \in 1..Len(requests) :
        requests[i].endpoint \in {"documents.list", "documents.info"} =>
            /\ calls[i].method =
                  (IF requests[i].endpoint = "documents.list" THEN "list" ELSE "retrieve_one")
            /\ (calls[i].ret.tag = "Err") = Failed(requests[i].response)
            /\ Failed(requests[i].response) =>
                  calls[i].ret.err.variant =
                      (IF Answered(requests[i].response, 401)
                       THEN "BadCredentials"
                       ELSE IF /\ Answered(requests[i].response, 404)
                               /\ requests[i].endpoint = "documents.info"
                       THEN "DocumentNotFound"
                       ELSE "AdapterError")

\* documents.info was answered 404 and retrieve_one returned DocumentNotFound.
C16_Witness ==
    \E i \in 1..Len(requests) :
        /\ requests[i].endpoint = "documents.info"
        /\ Answered(requests[i].response, 404)
        /\ calls[i].method = "retrieve_one"
        /\ calls[i].ret.tag = "Err"
        /\ calls[i].ret.err.variant = "DocumentNotFound"

\* C20: with the HTTP adapters, when own_documents_only = true and auth.info
\* is answered 401, list returns CouldNotGetAuth, not BadCredentials, and
\* documents.list is never requested; list returns BadCredentials only
\* after documents.list was answered 401.
C20_UnauthorizedAuthIsCouldNotGetAuth ==
    /\ \A i \in 1..Len(requests) :
          (requests[i].endpoint = "auth.info" /\ Answered(requests[i].response, 401)) =>
              /\ args.fn = "list"
              /\ args.list_opts.own_documents_only
              /\ result.tag = "Err"
              /\ result.variant = "CouldNotGetAuth"
              /\ \A j \in 1..Len(requests) : requests[j].endpoint # "documents.list"
    /\ (result.tag = "Err" /\ result.variant = "BadCredentials") =>
          /\ args.fn = "list"
          /\ \E i \in 1..Len(requests) :
                /\ requests[i].endpoint = "documents.list"
                /\ Answered(requests[i].response, 401)

\* auth.info was answered 401 and list has returned CouldNotGetAuth.
C20_Witness ==
    /\ args.fn = "list"
    /\ args.list_opts.own_documents_only
    /\ Len(requests) = 1
    /\ requests[1].endpoint = "auth.info"
    /\ Answered(requests[1].response, 401)
    /\ result.tag = "Err"
    /\ result.variant = "CouldNotGetAuth"

====
